---- MODULE Spec2Model ----
(***************************************************************************)
(* Model of src/dwarfs/error.cpp: the system_error constructors, the       *)
(* exception-chain dumper, the two fatal diagnostic handlers and the       *)
(* process entry harness safe_main.                                        *)
(*                                                                         *)
(* The error stream is a sequence of lines; a line is a sequence of string *)
(* tokens (the pieces the code inserts with <<), the trailing "\n" being   *)
(* the end of the element.                                                 *)
(***************************************************************************)
EXTENDS Integers, Sequences, FiniteSets, TLC

\* ---- bounds of the model ------------------------------------------------
MaxErrno == 2
MaxLine == 2
MaxChain == 2

Codes == 0..MaxErrno
Files == {"a.cpp", "b.cpp"}
Lines == 1..MaxLine
Msgs == {"open"}
Exprs == {"p != 0"}
Statuses == {0, 1, 42}

VARIABLES
  win32,        \* build: _WIN32 defined
  useTracer,    \* build: DWARFS_USE_EXCEPTION_TRACER defined
  pc,           \* position of the process inside safe_main
  errno,        \* the ambient last-error value
  obj,          \* the system_error the application has constructed
  exc,          \* the failure propagating into / handled by safe_main
  stderr,       \* std::cerr, a sequence of lines
  steps,        \* history: the setup calls safe_main has made, in order
  installs,     \* history: calls of installFatalSignalHandler
  fnCalls,      \* history: invocations of fn
  dumpCalls,    \* history: calls of dump_exceptions
  branch,       \* the catch clause of safe_main that was entered (0: none)
  retval,       \* {} while safe_main has not returned, {v} once it returned v
  fnRet,        \* {} unless fn returned normally, then {v}
  globalLocale, \* std::locale::global
  cLocale,      \* the C runtime locale
  locFail,      \* history: std::locale(locale) threw
  classicFail,  \* history: std::locale::global(classic) threw
  csetFail,     \* history: std::setlocale returned null
  termFailed,   \* history: setup_terminal threw
  signalled,    \* history: a fatal signal ended the process
  chain,        \* the exception chain the tracer exposed to dump_exceptions
  catchAt,      \* Len(stderr) when the catch clause was entered
  dumpAt,       \* Len(stderr) when dump_exceptions was called
  fatalAt,      \* Len(stderr) when a fatal diagnostic handler was called
  fatal,        \* the fatal diagnostic handler call of this process run
  prevFatal     \* the fatal diagnostic handler call of an earlier run

vars == <<win32, useTracer, pc, errno, obj, exc, stderr, steps, installs,
          fnCalls, dumpCalls, branch, retval, fnRet, globalLocale, cLocale,
          locFail, classicFail, csetFail, termFailed, signalled, chain,
          catchAt, dumpAt, fatalAt, fatal, prevFatal>>

\* ---- rendering ----------------------------------------------------------
Digits == <<"0", "1", "2", "3", "4", "5", "6", "7", "8", "9">>

\* operator<<(int): decimal digits, most significant first
RECURSIVE Dec(_)
Dec(n) ==
  IF n < 10 THEN <<Digits[n + 1]>>
  ELSE Dec(n \div 10) \o <<Digits[(n % 10) + 1]>>

\* std::generic_category().message(err)
StrError(err) ==
  CASE err = 0 -> <<"Success">>
    [] err = 1 -> <<"Operation not permitted">>
    [] err = 2 -> <<"No such file or directory">>
    [] err = 3 -> <<"No such process">>
    [] OTHER -> <<"Unknown error ">> \o Dec(err)

NoExc == [kind |-> "none", code |-> 0, what |-> <<>>, file |-> "", line |-> 0]

\* ---- system_error constructors (lines 39-55) ------------------------------
\* variant: the explicit code is dropped and errno read instead
system_error_sefl_ignores_err(s, err, file, line) ==
  [kind |-> "system_error", code |-> errno,
   what |-> <<s, ": ">> \o StrError(errno), file |-> file, line |-> line]

\* system_error(std::string const& s, int err, char const* file, int line)
system_error_sefl(s, err, file, line) ==
  [kind |-> "system_error", code |-> err,
   what |-> <<s, ": ">> \o StrError(err), file |-> file, line |-> line]

\* system_error(int err, char const* file, int line)
system_error_efl(err, file, line) ==
  [kind |-> "system_error", code |-> err,
   what |-> StrError(err), file |-> file, line |-> line]

\* system_error(char const* file, int line)
system_error_fl(file, line) == system_error_efl(errno, file, line)

\* system_error(std::string const& s, char const* file, int line)
system_error_sfl(s, file, line) == system_error_sefl(s, errno, file, line)

\* the other failure kinds the entry point can raise
ErrorExc(s, file, line) ==
  [kind |-> "error", code |-> 0, what |-> <<s>>, file |-> file, line |-> line]
RuntimeExc(s) ==
  [kind |-> "runtime", code |-> 0, what |-> <<s>>, file |-> "", line |-> 0]
UnknownExc == [kind |-> "unknown", code |-> 0, what |-> <<>>, file |-> "", line |-> 0]

TypeName(kind) ==
  CASE kind = "system_error" -> "dwarfs::system_error"
    [] kind = "error" -> "dwarfs::error"
    [] kind = "runtime" -> "std::runtime_error"
    [] OTHER -> "<unknown exception>"

\* folly::exceptionStr: the type name, ": ", what()
exceptionStr(e) ==
  IF e.kind = "unknown" THEN <<TypeName(e.kind)>>
  ELSE <<TypeName(e.kind), ": ">> \o e.what

NoObj == [e |-> NoExc, explicit |-> FALSE, expected |-> 0]
NoFatal == [fn |-> "none", expr |-> "", msg |-> "", file |-> "", line |-> 0,
            cur |-> NoExc, out |-> <<>>]

Terminal == {"returned", "terminated", "propagated"}

Init ==
  /\ win32 \in BOOLEAN
  /\ useTracer \in BOOLEAN
  /\ pc = "install"
  /\ errno = 0
  /\ obj = NoObj
  /\ exc = NoExc
  /\ stderr = <<>>
  /\ steps = <<>>
  /\ installs = 0
  /\ fnCalls = 0
  /\ dumpCalls = 0
  /\ branch = 0
  /\ retval = {}
  /\ fnRet = {}
  /\ globalLocale = "C"
  /\ cLocale = "C"
  /\ locFail = FALSE
  /\ classicFail = FALSE
  /\ csetFail = FALSE
  /\ termFailed = FALSE
  /\ signalled = FALSE
  /\ chain = <<>>
  /\ catchAt = 0
  /\ dumpAt = 0
  /\ fatalAt = 0
  /\ fatal = NoFatal
  /\ prevFatal = NoFatal

\* ---- safe_main: the setup steps (lines 83-109) ----------------------------
build == <<win32, useTracer>>
appState == <<errno, obj>>
locales == <<globalLocale, cLocale>>
localeHist == <<locFail, classicFail, csetFail>>
counters == <<installs, fnCalls, dumpCalls>>
marks == <<catchAt, dumpAt, fatalAt>>
fatals == <<fatal, prevFatal>>
results == <<branch, retval, fnRet>>

\* char const* locale (lines 87-91)
LocaleName == IF win32 THEN "en_US.utf8" ELSE ""

WarnUserLocale == <<"warning: failed to set user default locale">>
WarnClassicLocale == <<"warning: also failed to set classic locale">>
WarnSetlocale == <<"warning: setlocale(LC_ALL, \"\") failed">>

\* variant: the crash reporter is never installed
installFatalSignalHandlerSkipped ==
  /\ pc = "install"
  /\ pc' = "locale"
  /\ UNCHANGED <<build, appState, exc, stderr, steps, counters, results,
                 locales, localeHist, termFailed, signalled, chain, marks,
                 fatals>>

\* #ifndef _WIN32 folly::symbolizer::installFatalSignalHandler(); (84-86)
installFatalSignalHandler ==
  /\ pc = "install"
  /\ pc' = "locale"
  /\ IF win32
       THEN UNCHANGED <<installs, steps>>
       ELSE /\ installs' = installs + 1
            /\ steps' = Append(steps, "install")
  /\ UNCHANGED <<build, appState, exc, stderr, fnCalls, dumpCalls, results,
                 locales, localeHist, termFailed, signalled, chain, marks,
                 fatals>>

\* try { std::locale::global(std::locale(locale)); } catch (std::exception) {
\*   warning ... (92-95)
SetGlobalLocale ==
  /\ pc = "locale"
  /\ steps' = Append(steps, "locale")
  /\ \E ok \in BOOLEAN :
       IF ok
         THEN /\ globalLocale' = LocaleName
              /\ pc' = "setlocale"
              /\ UNCHANGED <<stderr, locFail>>
         ELSE /\ locFail' = TRUE
              /\ stderr' = Append(stderr, WarnUserLocale)
              /\ pc' = "classic"
              /\ UNCHANGED globalLocale
  /\ UNCHANGED <<build, appState, exc, counters, results, cLocale,
                 classicFail, csetFail, termFailed, signalled, chain, marks,
                 fatals>>

\* variant: the fallback is not wrapped in its own try block
SetClassicLocaleUncaught ==
  /\ pc = "classic"
  /\ steps' = Append(steps, "classic")
  /\ \E ok \in BOOLEAN :
       IF ok
         THEN /\ globalLocale' = "C"
              /\ pc' = "setlocale"
              /\ UNCHANGED <<stderr, classicFail, exc>>
         ELSE /\ classicFail' = TRUE
              /\ exc' = [kind |-> "runtime", code |-> 0, what |-> <<"locale">>,
                         file |-> "", line |-> 0]
              /\ pc' = "catch"
              /\ UNCHANGED <<globalLocale, stderr>>
  /\ UNCHANGED <<build, appState, counters, results, cLocale, locFail,
                 csetFail, termFailed, signalled, chain, marks, fatals>>

\* try { std::locale::global(std::locale::classic()); } catch (std::exception)
\*   { warning ... } (96-100)
SetClassicLocale ==
  /\ pc = "classic"
  /\ steps' = Append(steps, "classic")
  /\ \E ok \in BOOLEAN :
       IF ok
         THEN /\ globalLocale' = "C"
              /\ UNCHANGED <<stderr, classicFail>>
         ELSE /\ classicFail' = TRUE
              /\ stderr' = Append(stderr, WarnClassicLocale)
              /\ UNCHANGED globalLocale
  /\ pc' = "setlocale"
  /\ UNCHANGED <<build, appState, exc, counters, results, cLocale, locFail,
                 csetFail, termFailed, signalled, chain, marks, fatals>>

\* if (!std::setlocale(LC_ALL, locale)) { warning ... } (103-105)
CSetlocale ==
  /\ pc = "setlocale"
  /\ steps' = Append(steps, "setlocale")
  /\ \E ok \in BOOLEAN :
       IF ok
         THEN /\ cLocale' = LocaleName
              /\ UNCHANGED <<stderr, csetFail>>
         ELSE /\ csetFail' = TRUE
              /\ stderr' = Append(stderr, WarnSetlocale)
              /\ UNCHANGED cLocale
  /\ pc' = "terminal"
  /\ UNCHANGED <<build, appState, exc, counters, results, globalLocale,
                 locFail, classicFail, termFailed, signalled, chain, marks,
                 fatals>>

\* what an opaque call made inside safe_main's try block can raise
TerminalFailures ==
  { [kind |-> "runtime", code |-> 0, what |-> <<"terminal">>, file |-> "",
     line |-> 0],
    [kind |-> "unknown", code |-> 0, what |-> <<>>, file |-> "", line |-> 0] }

\* variant: the call is made outside the try block
setup_terminal_outside_try ==
  /\ pc = "terminal"
  /\ steps' = Append(steps, "terminal")
  /\ \/ /\ pc' = "call_fn"
        /\ UNCHANGED <<exc, termFailed>>
     \/ \E e \in TerminalFailures :
          /\ exc' = e
          /\ termFailed' = TRUE
          /\ pc' = "propagated"
  /\ UNCHANGED <<build, appState, stderr, counters, results, locales,
                 localeHist, signalled, chain, marks, fatals>>

\* setup_terminal(); inside the outer try block (107)
setup_terminal ==
  /\ pc = "terminal"
  /\ steps' = Append(steps, "terminal")
  /\ \/ /\ pc' = "call_fn"
        /\ UNCHANGED <<exc, termFailed>>
     \/ \E e \in TerminalFailures :
          /\ exc' = e
          /\ termFailed' = TRUE
          /\ pc' = "catch"
  /\ UNCHANGED <<build, appState, stderr, counters, results, locales,
                 localeHist, signalled, chain, marks, fatals>>

\* fn() is entered (109)
CallFn ==
  /\ pc = "call_fn"
  /\ fnCalls' = fnCalls + 1
  /\ steps' = Append(steps, "fn")
  /\ pc' = "app"
  /\ UNCHANGED <<build, appState, exc, stderr, installs, dumpCalls, results,
                 locales, localeHist, termFailed, signalled, chain, marks,
                 fatals>>

\* ---- the application entry point fn (opaque caller code) -------------------
\* an operation of the application overwrites errno
AppSetErrno ==
  /\ pc = "app"
  /\ \E e \in Codes : e # errno /\ errno' = e
  /\ UNCHANGED <<build, pc, obj, exc, stderr, steps, counters, results,
                 locales, localeHist, termFailed, signalled, chain, marks,
                 fatals>>

\* the application constructs a system_error with an explicit code
AppConstructExplicit ==
  /\ pc = "app"
  /\ \E err \in Codes, file \in Files, line \in Lines :
       \/ obj' = [e |-> system_error_efl(err, file, line),
                  explicit |-> TRUE, expected |-> err]
       \/ \E s \in Msgs :
            obj' = [e |-> system_error_sefl(s, err, file, line),
                    explicit |-> TRUE, expected |-> err]
  /\ UNCHANGED <<build, pc, errno, exc, stderr, steps, counters, results,
                 locales, localeHist, termFailed, signalled, chain, marks,
                 fatals>>

\* the application constructs a system_error without a code
AppConstructAmbient ==
  /\ pc = "app"
  /\ \E file \in Files, line \in Lines :
       \/ obj' = [e |-> system_error_fl(file, line),
                  explicit |-> FALSE, expected |-> errno]
       \/ \E s \in Msgs :
            obj' = [e |-> system_error_sfl(s, file, line),
                    explicit |-> FALSE, expected |-> errno]
  /\ UNCHANGED <<build, pc, errno, exc, stderr, steps, counters, results,
                 locales, localeHist, termFailed, signalled, chain, marks,
                 fatals>>

\* fn raises the system_error it constructed
AppThrowSystemError ==
  /\ pc = "app"
  /\ obj # NoObj
  /\ exc' = obj.e
  /\ pc' = "catch"
  /\ UNCHANGED <<build, appState, stderr, steps, counters, results, locales,
                 localeHist, termFailed, signalled, chain, marks, fatals>>

\* fn raises an error, a generic runtime failure or something else; the
\* unwinding destroys the objects of fn
AppThrowOther ==
  /\ pc = "app"
  /\ \/ \E s \in Msgs, file \in Files, line \in Lines :
          exc' = ErrorExc(s, file, line)
     \/ \E s \in Msgs : exc' = RuntimeExc(s)
     \/ exc' = UnknownExc
  /\ pc' = "catch"
  /\ obj' = NoObj
  /\ UNCHANGED <<build, errno, stderr, steps, counters, results, locales,
                 localeHist, termFailed, signalled, chain, marks, fatals>>

\* variant: the status of fn is reduced to 0 or 1
ReturnFnClamped(v) ==
  /\ pc = "app"
  /\ fnRet' = {v}
  /\ retval' = {IF v = 0 THEN 0 ELSE 1}
  /\ pc' = "returned"
  /\ obj' = NoObj
  /\ UNCHANGED <<build, errno, exc, stderr, steps, counters, branch,
                 locales, localeHist, termFailed, signalled, chain, marks,
                 fatals>>

\* return fn(); (109)
ReturnFn(v) ==
  /\ pc = "app"
  /\ fnRet' = {v}
  /\ retval' = {v}
  /\ pc' = "returned"
  /\ obj' = NoObj
  /\ UNCHANGED <<build, errno, exc, stderr, steps, counters, branch,
                 locales, localeHist, termFailed, signalled, chain, marks,
                 fatals>>

AppReturn == \E v \in Statuses : ReturnFn(v)

\* ---- the fatal diagnostic handlers (lines 68-80) ---------------------------
\* std::current_exception() where handle_nothrow is called: inside the
\* handler that caught what the expression threw
CurrentExceptions ==
  { [kind |-> "runtime", code |-> 0, what |-> <<"bad">>, file |-> "", line |-> 0],
    [kind |-> "unknown", code |-> 0, what |-> <<>>, file |-> "", line |-> 0] }

\* the character 0x60, which a TLA+ string cannot hold
Backquote == "<0x60>"

\* the line handle_nothrow writes (69-71); cur is std::current_exception()
HandleNothrowLine(expr, file, line, cur) ==
  <<"Expression ", Backquote, expr, Backquote, " threw ", Backquote>>
    \o exceptionStr(cur)
    \o <<Backquote, " in ", file, "(">> \o Dec(line) \o <<")">>

\* the line assertion_failed writes (77-78)
AssertionLine(expr, msg, file, line) ==
  <<"Assertion ", Backquote, expr, Backquote, " failed in ", file, "(">> \o Dec(line)
    \o <<"): ", msg>>

\* variant: the ::abort() call is missing
handle_nothrow_returns(expr, file, line) ==
  /\ pc = "app"
  /\ \E cur \in CurrentExceptions :
       LET out == HandleNothrowLine(expr, file, line, cur) IN
         /\ stderr' = Append(stderr, out)
         /\ fatal' = [fn |-> "handle_nothrow", expr |-> expr, msg |-> "",
                      file |-> file, line |-> line, cur |-> cur, out |-> out]
  /\ fatalAt' = Len(stderr)
  /\ UNCHANGED <<build, pc, appState, exc, steps, counters, results, locales,
                 localeHist, termFailed, signalled, chain, catchAt, dumpAt,
                 prevFatal>>

\* void handle_nothrow(char const* expr, char const* file, int line) (68-73);
\* ::abort() ends the process, and with it its memory
handle_nothrow(expr, file, line) ==
  /\ pc = "app"
  /\ \E cur \in CurrentExceptions :
       LET out == HandleNothrowLine(expr, file, line, cur) IN
         /\ stderr' = Append(stderr, out)
         /\ fatal' = [fn |-> "handle_nothrow", expr |-> expr, msg |-> "",
                      file |-> file, line |-> line, cur |-> cur, out |-> out]
  /\ fatalAt' = Len(stderr)
  /\ pc' = "terminated"
  /\ errno' = 0
  /\ obj' = NoObj
  /\ UNCHANGED <<build, exc, steps, counters, results, locales,
                 localeHist, termFailed, signalled, chain, catchAt, dumpAt,
                 prevFatal>>

\* void assertion_failed(expr, msg, file, line) (75-80)
assertion_failed(expr, msg, file, line) ==
  /\ pc = "app"
  /\ LET out == AssertionLine(expr, msg, file, line) IN
       /\ stderr' = Append(stderr, out)
       /\ fatal' = [fn |-> "assertion_failed", expr |-> expr, msg |-> msg,
                    file |-> file, line |-> line, cur |-> NoExc, out |-> out]
  /\ fatalAt' = Len(stderr)
  /\ pc' = "terminated"
  /\ errno' = 0
  /\ obj' = NoObj
  /\ UNCHANGED <<build, exc, steps, counters, results, locales,
                 localeHist, termFailed, signalled, chain, catchAt, dumpAt,
                 prevFatal>>

\* a statement of the application that was promised not to throw did
AppNothrowViolated ==
  \E expr \in Exprs, file \in Files, line \in Lines :
    handle_nothrow(expr, file, line)

\* a check of the application fails
AppAssertionFailed ==
  \E expr \in Exprs, msg \in Msgs, file \in Files, line \in Lines :
    assertion_failed(expr, msg, file, line)

\* a fatal signal ends the process wherever it is
FatalSignal ==
  /\ pc \notin Terminal
  /\ signalled' = TRUE
  /\ pc' = "terminated"
  /\ errno' = 0
  /\ obj' = NoObj
  /\ UNCHANGED <<build, exc, stderr, steps, counters, results,
                 locales, localeHist, termFailed, chain, marks, fatals>>

\* ---- safe_main: the catch clauses (lines 110-124) --------------------------
\* variant: the generic clause is written first
HandlersGenericFirst == <<"std::exception", "system_error", "error", "...">>

\* variant: the catch-all clause is missing
HandlersNoCatchAll == <<"system_error", "error", "std::exception">>

\* the catch clauses in the order they are written (110, 114, 118, 121)
Handlers == <<"system_error", "error", "std::exception", "...">>

\* does a failure of this kind bind to the clause's declaration
Matches(kind, h) ==
  \/ h = "..."
  \/ h = "std::exception" /\ kind \in {"system_error", "error", "runtime"}
  \/ h = kind

\* the first clause that matches, 0 when none does
Dispatch(kind) ==
  LET m == {i \in 1..Len(Handlers) : Matches(kind, Handlers[i])} IN
    IF m = {} THEN 0 ELSE CHOOSE i \in m : \A j \in m : i <= j

\* what the clause writes before it calls dump_exceptions (111-112, 115-116,
\* 119; the catch-all writes nothing)
CatchLines(h, e) ==
  CASE h \in {"system_error", "error"} ->
         << <<"ERROR: ">> \o exceptionStr(e) \o <<" [", e.file, ":">>
              \o Dec(e.line) \o <<"]">> >>
    [] h = "std::exception" -> << <<"ERROR: ">> \o exceptionStr(e) >>
    [] OTHER -> <<>>

\* the failure leaves the try block and a clause is entered
Catch ==
  /\ pc = "catch"
  /\ LET b == Dispatch(exc.kind) IN
       IF b = 0
         THEN /\ pc' = "propagated"
              /\ UNCHANGED <<branch, stderr, catchAt>>
         ELSE /\ branch' = b
              /\ catchAt' = Len(stderr)
              /\ stderr' = stderr \o CatchLines(Handlers[b], exc)
              /\ pc' = "dump"
  /\ UNCHANGED <<build, appState, exc, steps, counters, retval, fnRet,
                 locales, localeHist, termFailed, signalled, chain, dumpAt,
                 fatalAt, fatals>>

\* ---- dump_exceptions (lines 57-66) -----------------------------------------
\* operator<< of one entry of getCurrentExceptions()
TracerLine(e) == <<"Exception type: ", TypeName(e.kind)>>

FallbackLine == <<"cannot dump exceptions">>

\* variant: nothing is written when the tracer is not built in
DumpLinesSilentFallback(ch) ==
  IF useTracer THEN [i \in 1..Len(ch) |-> TracerLine(ch[i])] ELSE <<>>

\* variant: the chain is written last entry first
DumpLinesReversed(ch) ==
  IF useTracer
    THEN [i \in 1..Len(ch) |-> TracerLine(ch[Len(ch) + 1 - i])]
    ELSE <<FallbackLine>>

\* the lines dump_exceptions writes for the chain ch
DumpLines(ch) ==
  IF useTracer THEN [i \in 1..Len(ch) |-> TracerLine(ch[i])]
  ELSE <<FallbackLine>>

\* failures that lie under the one being handled
Causes ==
  { [kind |-> "runtime", code |-> 0, what |-> <<"cause">>, file |-> "", line |-> 0],
    [kind |-> "error", code |-> 0, what |-> <<"cause">>, file |-> "a.cpp", line |-> 1] }

\* getCurrentExceptions() inside a handler: the failure being handled, then
\* those below it
Chains == {<<exc>> \o t : t \in UNION {[1..k -> Causes] : k \in 0..(MaxChain - 1)}}

\* void dump_exceptions(), called from a catch clause (113, 117, 120, 122)
dump_exceptions ==
  /\ pc = "dump"
  /\ dumpCalls' = dumpCalls + 1
  /\ dumpAt' = Len(stderr)
  /\ IF useTracer THEN chain' \in Chains ELSE chain' = <<>>
  /\ stderr' = stderr \o DumpLines(chain')
  /\ pc' = "ret1"
  /\ UNCHANGED <<build, appState, exc, steps, installs, fnCalls, results,
                 locales, localeHist, termFailed, signalled, catchAt, fatalAt,
                 fatals>>

\* return 1; (124)
Return1 ==
  /\ pc = "ret1"
  /\ retval' = {1}
  /\ pc' = "returned"
  /\ UNCHANGED <<build, appState, exc, stderr, steps, counters, branch, fnRet,
                 locales, localeHist, termFailed, signalled, chain, marks,
                 fatals>>

\* ---- the program is run again ----------------------------------------------
Restart ==
  /\ pc \in Terminal
  /\ pc' = "install"
  /\ errno' = 0
  /\ obj' = NoObj
  /\ exc' = NoExc
  /\ stderr' = <<>>
  /\ steps' = <<>>
  /\ installs' = 0
  /\ fnCalls' = 0
  /\ dumpCalls' = 0
  /\ branch' = 0
  /\ retval' = {}
  /\ fnRet' = {}
  /\ globalLocale' = "C"
  /\ cLocale' = "C"
  /\ locFail' = FALSE
  /\ classicFail' = FALSE
  /\ csetFail' = FALSE
  /\ termFailed' = FALSE
  /\ signalled' = FALSE
  /\ chain' = <<>>
  /\ catchAt' = 0
  /\ dumpAt' = 0
  /\ fatalAt' = 0
  /\ fatal' = NoFatal
  /\ prevFatal' = IF fatal # NoFatal THEN fatal ELSE prevFatal
  /\ UNCHANGED build

Next ==
  \/ installFatalSignalHandler
  \/ SetGlobalLocale
  \/ SetClassicLocale
  \/ CSetlocale
  \/ setup_terminal
  \/ CallFn
  \/ AppSetErrno
  \/ AppConstructExplicit
  \/ AppConstructAmbient
  \/ AppThrowSystemError
  \/ AppThrowOther
  \/ AppReturn
  \/ AppNothrowViolated
  \/ AppAssertionFailed
  \/ FatalSignal
  \/ Catch
  \/ dump_exceptions
  \/ Return1
  \/ Restart

Spec == Init /\ [][Next]_vars

\* ---- properties ------------------------------------------------------------
Range(q) == {q[i] : i \in 1..Len(q)}

\* sub occurs in line as a run of consecutive tokens
Contains(line, sub) ==
  \E i \in 0..(Len(line) - Len(sub)) : SubSeq(line, i + 1, i + Len(sub)) = sub

IsErrorLine(line) == Len(line) > 0 /\ line[1] = "ERROR: "

Count(q, x) == Cardinality({i \in 1..Len(q) : q[i] = x})

\* the lines written to stderr after the first n
After(n) == SubSeq(stderr, n + 1, Len(stderr))

\* C1: when fn returns v without raising, safe_main returns exactly v, enters
\* no catch clause, writes no "ERROR:" line and does not call dump_exceptions.
C1_ReturnsEntryStatus ==
  fnRet # {} =>
    /\ pc = "returned"
    /\ retval = fnRet
    /\ branch = 0
    /\ exc = NoExc
    /\ dumpCalls = 0
    /\ \A i \in 1..Len(stderr) : ~IsErrorLine(stderr[i])

C1_Witness ==
  /\ pc = "returned"
  /\ fnRet = {42}
  /\ retval = {42}
  /\ locFail

\* the three outcomes of C2
NormalReturn ==
  /\ pc = "returned" /\ fnRet # {} /\ retval = fnRet /\ exc = NoExc /\ branch = 0
CaughtReturn ==
  /\ pc = "returned" /\ fnRet = {} /\ retval = {1} /\ exc # NoExc
  /\ branch \in 1..4 /\ dumpCalls = 1
Termination ==
  /\ pc = "terminated" /\ retval = {} /\ (signalled \/ fatal # NoFatal)

\* C2: safe_main ends in exactly one of: normal return with fn's status,
\* return of 1 after a caught failure, process termination; no failure ever
\* leaves safe_main, and fn is invoked at most once.
C2_ThreeOutcomes ==
  /\ pc # "propagated"
  /\ fnCalls <= 1
  /\ pc \in Terminal =>
       Cardinality({k \in 1..3 : \/ k = 1 /\ NormalReturn
                                 \/ k = 2 /\ CaughtReturn
                                 \/ k = 3 /\ Termination}) = 1

C2_Witness ==
  /\ CaughtReturn
  /\ exc.kind = "unknown"
  /\ fnCalls = 1

\* C3: a system_error with code E and origin (F, L) raised by fn is handled by
\* the first clause: it writes "ERROR: <description> [F:L]" with the rendered
\* description of E, then dump_exceptions runs, then safe_main returns 1.
C3_SystemErrorBranch ==
  (exc.kind = "system_error" /\ pc \in {"dump", "ret1", "returned"}) =>
    /\ branch = 1
    /\ Len(stderr) > catchAt
    /\ LET l == stderr[catchAt + 1] IN
         /\ l = <<"ERROR: ", "dwarfs::system_error", ": ">> \o exc.what
                  \o <<" [", exc.file, ":">> \o Dec(exc.line) \o <<"]">>
         /\ Contains(l, StrError(exc.code))
         /\ Contains(l, <<" [", exc.file, ":">> \o Dec(exc.line) \o <<"]">>)
    /\ Count(stderr, stderr[catchAt + 1]) = 1
    /\ pc = "dump" => dumpCalls = 0 /\ Len(stderr) = catchAt + 1
    /\ pc \in {"ret1", "returned"} => dumpCalls = 1 /\ dumpAt = catchAt + 1
    /\ pc = "returned" => retval = {1}

C3_Witness ==
  /\ pc = "returned"
  /\ exc.kind = "system_error"
  /\ exc.code = 2
  /\ exc.file = "b.cpp"
  /\ exc.line = 2
  /\ retval = {1}

\* C4: a failure outside the taxonomy raised by fn still gets a diagnostic
\* line on the error stream and status 1; it does not propagate (a fatal
\* signal aside, which ends the process wherever it is).
C4_CatchAll ==
  (exc.kind = "unknown" /\ fnCalls = 1 /\ ~signalled) =>
    /\ pc \in {"catch", "dump", "ret1", "returned"}
    /\ pc \in {"dump", "ret1", "returned"} => branch = 4
    /\ pc \in {"ret1", "returned"} => Len(stderr) > catchAt
    /\ pc = "returned" => retval = {1}

C4_Witness ==
  /\ exc.kind = "unknown"
  /\ fnCalls = 1
  /\ pc = "returned"
  /\ ~useTracer

\* C5: locale failure is never fatal: a failure of the preferred locale gives
\* the first warning and the classic locale; a failure of that gives the second
\* warning, never without the first before it; a failure of setlocale gives
\* only a warning; and whatever the combination, safe_main goes on to
\* setup_terminal and, when that returns, invokes fn.
C5_LocaleNeverFatal ==
  /\ locFail <=> WarnUserLocale \in Range(stderr)
  /\ classicFail <=> WarnClassicLocale \in Range(stderr)
  /\ csetFail <=> WarnSetlocale \in Range(stderr)
  /\ \A i \in 1..Len(stderr) :
       stderr[i] = WarnClassicLocale =>
         \E j \in 1..(i - 1) : stderr[j] = WarnUserLocale
  /\ (locFail /\ ~classicFail /\ "classic" \in Range(steps)) =>
       globalLocale = "C"
  /\ pc \in {"locale", "classic", "setlocale", "terminal", "call_fn"} =>
       exc = NoExc /\ retval = {} /\ branch = 0
  /\ (pc \in {"catch", "dump", "ret1", "returned"}
        \/ (pc = "terminated" /\ ~signalled)) =>
       /\ "terminal" \in Range(steps)
       /\ ~termFailed => fnCalls = 1

C5_Witness ==
  /\ locFail
  /\ classicFail
  /\ csetFail
  /\ pc = "app"
  /\ fnCalls = 1

\* each fatal handler writes exactly one line and ends the process
FatalHandlerEnds ==
  fatal # NoFatal =>
    /\ pc = "terminated"
    /\ retval = {}
    /\ fnRet = {}
    /\ After(fatalAt) = <<fatal.out>>
    /\ fatal.fn = "assertion_failed" =>
         fatal.out = <<"Assertion ", Backquote, fatal.expr, Backquote,
                       " failed in ", fatal.file, "(">> \o Dec(fatal.line)
                       \o <<"): ", fatal.msg>>
    /\ fatal.fn = "handle_nothrow" =>
         /\ Contains(fatal.out, <<"Expression ", Backquote, fatal.expr>>)
         /\ Contains(fatal.out, <<" in ", fatal.file, "(">> \o Dec(fatal.line)
                                  \o <<")">>)

SameInputs ==
  /\ fatal # NoFatal
  /\ prevFatal.fn = fatal.fn
  /\ prevFatal.expr = fatal.expr
  /\ prevFatal.msg = fatal.msg
  /\ prevFatal.file = fatal.file
  /\ prevFatal.line = fatal.line

\* C6 as stated: assertion_failed and handle_nothrow each write exactly one
\* line and then end the process, never returning, and the same inputs always
\* give the same line.
C6_SameInputsSameLine ==
  /\ FatalHandlerEnds
  /\ SameInputs => fatal.out = prevFatal.out

\* C6 as amended: ... and the same inputs together with the same current
\* exception (which handle_nothrow renders into its line) always give the
\* same line.
C6_SameInputsAndExceptionSameLine ==
  /\ FatalHandlerEnds
  /\ (SameInputs /\ prevFatal.cur = fatal.cur) => fatal.out = prevFatal.out

C6_Witness ==
  /\ SameInputs
  /\ fatal.fn = "handle_nothrow"
  /\ prevFatal.cur = fatal.cur
  /\ fatal.cur.kind = "runtime"
  /\ pc = "terminated"

\* C7: the code of a system_error is fixed at construction: the explicit
\* code when one is given, whatever errno is; errno at that moment otherwise;
\* later changes of errno do not change it.
C7_CodeFixedAtConstruction ==
  /\ obj # NoObj =>
       /\ obj.e.kind = "system_error"
       /\ obj.e.code = obj.expected
       /\ Contains(obj.e.what, StrError(obj.expected))
  /\ (exc.kind = "system_error" /\ pc # "terminated") =>
       obj.e = exc /\ exc.code = obj.expected

C7_Witness ==
  /\ pc = "app"
  /\ obj # NoObj
  /\ ~obj.explicit
  /\ obj.e.code = 1
  /\ errno = 2

\* C8: dump_exceptions does not throw: without chain introspection it writes
\* exactly the line "cannot dump exceptions", with it one line per failure of
\* the chain in the chain's order; it returns to the catch clause, which then
\* returns 1.
C8_DumpNeverThrows ==
  /\ dumpCalls <= 1
  /\ pc \in {"ret1", "returned"} /\ branch # 0 => dumpCalls = 1
  /\ dumpCalls = 1 =>
       /\ pc \in {"ret1", "returned"} \/ signalled
       /\ LET w == After(dumpAt) IN
            IF useTracer
              THEN /\ Len(w) = Len(chain)
                   /\ chain[1] = exc
                   /\ \A i \in 1..Len(chain) : w[i] = TracerLine(chain[i])
              ELSE w = <<FallbackLine>>
       /\ pc = "returned" => retval = {1}

C8_Witness ==
  /\ pc = "returned"
  /\ useTracer
  /\ Len(chain) = 2
  /\ chain[1].kind # chain[2].kind
  /\ retval = {1}

\* C9: where signal handlers exist, the crash reporter is installed exactly
\* once, before the locale is set, before setlocale, before setup_terminal and
\* before fn is invoked.
C9_InstallOnceFirst ==
  ~win32 =>
    /\ installs <= 1
    /\ Count(steps, "install") = installs
    /\ steps # <<>> => steps[1] = "install"
    /\ (pc # "install" /\ installs = 0) => (signalled /\ steps = <<>>)

C9_Witness ==
  /\ ~win32
  /\ pc = "app"
  /\ installs = 1
  /\ steps = <<"install", "locale", "classic", "setlocale", "terminal", "fn">>

\* C10 as stated: a failure of setup_terminal is not caught, reported or
\* turned into an exit status by safe_main.
C10_TerminalFailureNotHandled ==
  termFailed =>
    /\ branch = 0
    /\ dumpCalls = 0
    /\ retval = {}
    /\ \A i \in 1..Len(stderr) : ~IsErrorLine(stderr[i])

\* C10 as amended: setup_terminal is called inside safe_main's try block, so
\* a failure it raises is caught by the same clauses as a failure of fn:
\* reported by its kind, dump_exceptions called, 1 returned, fn not invoked.
C10_TerminalFailureCaught ==
  termFailed =>
    /\ pc # "propagated"
    /\ fnCalls = 0
    /\ exc \in TerminalFailures
    /\ pc \in {"dump", "ret1", "returned"} =>
         /\ branch = (IF exc.kind = "runtime" THEN 3 ELSE 4)
         /\ exc.kind = "runtime" =>
              stderr[catchAt + 1] =
                <<"ERROR: ", "std::runtime_error", ": ">> \o exc.what
    /\ pc = "returned" => retval = {1} /\ dumpCalls = 1

C10_Witness ==
  /\ termFailed
  /\ pc = "returned"
  /\ retval = {1}
  /\ branch = 3
====
